---- MODULE Spec2Model ----
(***************************************************************************)
(* Session/authorization store of the admin console (AuthContext.tsx):     *)
(* the held identity, the persisted token, the loading/verifying flags,    *)
(* the two popup flags, the requests in flight and the wall clock.         *)
(***************************************************************************)
EXTENDS Integers, Sequences, FiniteSets, Bags, TLC

VARIABLES
    user,                   \* useState<User | null>: the held identity
    token,                  \* localStorage['auth_token']
    isLoading,              \* useState(false)
    isVerifying,            \* useState(true)
    showVerificationPopup,  \* useState(false)
    showBanPopup,           \* useState(false)
    now,                    \* the instant new Date() yields
    mounted,                \* the mount effect (verifyAuth) has started
    userReq,                \* a GET /user request is in flight
    loginReqs,              \* POST /login requests in flight
    registerReqs,           \* POST /register requests in flight
    ret,                    \* what the last operation returned or settled with
    dash,                   \* the useState cells of AdminPanelPage but the form's
    mail,                   \* the useState cells of the bulk e-mail form
    net,                    \* the page's requests in flight, in order of issue
    panel                   \* whether AdminPanelPage is rendered

\* the state of the admin dashboard page
dashVars == <<dash, mail, net, panel>>

vars == <<user, token, isLoading, isVerifying, showVerificationPopup,
          showBanPopup, now, mounted, userReq, loginReqs, registerReqs, ret,
          dash, mail, net, panel>>

-----------------------------------------------------------------------------
(* Bounds of the model *)

MaxNow == 2         \* the clock runs over 0..MaxNow
MaxInFlight == 2    \* login and register requests in flight at once
MaxReq == 3         \* longest requiredGroups array passed to hasPrivilege
MaxPage == 2        \* pages the user list has at most
MaxNet == 3         \* dashboard requests in flight at once

-----------------------------------------------------------------------------
(* Values *)

Null == <<>>            \* user === null
NULL == "null"          \* a null in a string-typed field
NoToken == "none"       \* localStorage holds no auth_token
Tokens == {"tokA", "tokB"}

ISO_1 == "1970-01-01T00:00:00.001Z"   \* the instant 1 of the clock
NotADate == "soon"

DefinedGroups == <<"Basic Plan", "Premium Plan", "Junior Support", "Support",
                   "Senior Support", "Admin", "Owner">>
UnknownGroup == "Guest"
\* a key every JS object inherits: GROUP_HIERARCHY['constructor'] is a function
InheritedKey == "constructor"

\* the fields of User the store reads, and name for the ones it only carries
UserFields == {"name", "email_verified_at", "group", "banned_until"}

User(name, eva, group, bu) ==
    [name |-> name, email_verified_at |-> eva, group |-> group,
     banned_until |-> bu]

\* identities the backend returns from /login and /user
StoreGroups == {"Basic Plan", "Admin"}
ServerUsers ==
    {User("Ann", e, "Admin", b) : e \in {NULL, ISO_1}, b \in {NULL, ISO_1}}
    \cup {User("Bob", e, "Basic Plan", b) : e \in {NULL, ISO_1}, b \in {NULL, ISO_1}}

\* !v for a string-or-null field
Falsy(v) == v = NULL \/ v = ""

-----------------------------------------------------------------------------
(* Dates: new Date(s) and the > comparison of two Date objects *)

NaN == [nan |-> TRUE, n |-> 0]
Num(n) == [nan |-> FALSE, n |-> n]

newDate(s) ==
    IF s = ISO_1 THEN Num(1) ELSE NaN

\* a > b and a >= b on JS numbers: false when either side is NaN
Gt(a, b) == ~a.nan /\ ~b.nan /\ a.n > b.n
Geq(a, b) == ~a.nan /\ ~b.nan /\ a.n >= b.n

\* the comparison written >= instead of >
isUserObjectBannedMut(userObj, t) ==
    IF userObj = Null \/ Falsy(userObj.banned_until)
    THEN FALSE
    ELSE Geq(newDate(userObj.banned_until), Num(t))

isUserObjectBanned(userObj, t) ==
    IF userObj = Null \/ Falsy(userObj.banned_until)
    THEN FALSE
    ELSE Gt(newDate(userObj.banned_until), Num(t))

-----------------------------------------------------------------------------
(* Role hierarchy *)

GROUP_HIERARCHY ==
    ("Basic Plan" :> 0) @@ ("Premium Plan" :> 1) @@ ("Junior Support" :> 2) @@
    ("Support" :> 3) @@ ("Senior Support" :> 4) @@ ("Admin" :> 5) @@
    ("Owner" :> 6)

\* GROUP_HIERARCHY[key] ?? -1, with a default of 0 instead
privilegeOfMut(key) ==
    IF key \in DOMAIN GROUP_HIERARCHY THEN Num(GROUP_HIERARCHY[key])
    ELSE IF key = InheritedKey THEN NaN
    ELSE Num(0)

\* GROUP_HIERARCHY[key] ?? -1
privilegeOf(key) ==
    IF key \in DOMAIN GROUP_HIERARCHY THEN Num(GROUP_HIERARCHY[key])
    ELSE IF key = InheritedKey THEN NaN
    ELSE Num(-1)

\* the for loop, returning false as soon as one group is not reached
RECURSIVE anyGroupMut(_, _)
anyGroupMut(userPrivilege, groups) ==
    IF groups = <<>> THEN TRUE
    ELSE IF ~Geq(userPrivilege, privilegeOf(Head(groups))) THEN FALSE
    ELSE anyGroupMut(userPrivilege, Tail(groups))

\* the for loop over requiredGroups
RECURSIVE anyGroup(_, _)
anyGroup(userPrivilege, groups) ==
    IF groups = <<>> THEN FALSE
    ELSE IF Geq(userPrivilege, privilegeOf(Head(groups))) THEN TRUE
    ELSE anyGroup(userPrivilege, Tail(groups))

\* requiredGroups: string | string[]
One(g) == [isArray |-> FALSE, group |-> g, groups |-> <<>>]
Many(gs) == [isArray |-> TRUE, group |-> "", groups |-> gs]

\* the single-role comparison written > instead of >=
hasPrivilegeMut(u, requiredGroups) ==
    IF u = Null THEN FALSE
    ELSE LET userPrivilege == privilegeOf(u.group) IN
         IF requiredGroups.isArray
         THEN anyGroup(userPrivilege, requiredGroups.groups)
         ELSE Gt(userPrivilege, privilegeOf(requiredGroups.group))

hasPrivilege(u, requiredGroups) ==
    IF u = Null THEN FALSE
    ELSE LET userPrivilege == privilegeOf(u.group) IN
         IF requiredGroups.isArray
         THEN anyGroup(userPrivilege, requiredGroups.groups)
         ELSE Geq(userPrivilege, privilegeOf(requiredGroups.group))

isBanned == isUserObjectBanned(user, now)

-----------------------------------------------------------------------------
(* The store as a value, and the handlers as functions of it *)

Store ==
    [user |-> user, token |-> token, isLoading |-> isLoading,
     isVerifying |-> isVerifying,
     showVerificationPopup |-> showVerificationPopup,
     showBanPopup |-> showBanPopup]

Commit(s) ==
    /\ user' = s.user
    /\ token' = s.token
    /\ isLoading' = s.isLoading
    /\ isVerifying' = s.isVerifying
    /\ showVerificationPopup' = s.showVerificationPopup
    /\ showBanPopup' = s.showBanPopup

\* op: the operation; outcome: void, pending, fulfilled, rejected or returned;
\* arg: its argument or the response it settled with (a record, or <<>>);
\* val: the boolean a query returned
Ret(op, outcome, arg) == [op |-> op, outcome |-> outcome, arg |-> arg, val |-> FALSE]
Returns(op, arg, val) == [op |-> op, outcome |-> "returned", arg |-> arg, val |-> val]
NoRet == Ret("none", "void", <<>>)

\* useEffect(..., [user, isVerifying]): runs after a render in which user or
\* isVerifying changed; the handlers below apply it wherever they set either.
userEffect(s, t) ==
    IF ~s.isVerifying /\ s.user # Null
    THEN [s EXCEPT !.showBanPopup = isUserObjectBanned(s.user, t)]
    ELSE s

\* verifyAuth, the try block after GET /user resolved with data
verifyAuthResolved(s, data, t) ==
    LET s1 == [s EXCEPT !.user = data]
        s2 == IF Falsy(data.email_verified_at)
              THEN [s1 EXCEPT !.showVerificationPopup = TRUE] ELSE s1
        s3 == IF isUserObjectBanned(data, t)
              THEN [s2 EXCEPT !.showBanPopup = TRUE] ELSE s2
        s4 == [s3 EXCEPT !.isVerifying = FALSE]
    IN userEffect(s4, t)

\* the catch block without localStorage.removeItem
verifyAuthRejectedMut(s, t) ==
    userEffect([s EXCEPT !.user = Null, !.showBanPopup = FALSE,
                         !.isVerifying = FALSE], t)

\* verifyAuth, the catch block
verifyAuthRejected(s, t) ==
    userEffect([s EXCEPT !.token = NoToken, !.user = Null,
                         !.showBanPopup = FALSE, !.isVerifying = FALSE], t)

\* login up to the await
loginStart(s) == [s EXCEPT !.isLoading = TRUE]

\* a login that holds the identity but does not persist the token
loginResolvedMut(s, access_token, userData, t) ==
    LET s1 == [s EXCEPT !.user = userData]
        s2 == IF Falsy(userData.email_verified_at)
              THEN [s1 EXCEPT !.showVerificationPopup = TRUE] ELSE s1
        s3 == [s2 EXCEPT !.showBanPopup = isUserObjectBanned(userData, t)]
        s4 == [s3 EXCEPT !.isLoading = FALSE]
    IN userEffect(s4, t)

\* login after POST /login resolved with { access_token, user: userData }
loginResolved(s, access_token, userData, t) ==
    LET s1 == [s EXCEPT !.token = access_token, !.user = userData]
        s2 == IF Falsy(userData.email_verified_at)
              THEN [s1 EXCEPT !.showVerificationPopup = TRUE] ELSE s1
        s3 == [s2 EXCEPT !.showBanPopup = isUserObjectBanned(userData, t)]
        s4 == [s3 EXCEPT !.isLoading = FALSE]
    IN userEffect(s4, t)

\* a failure path that also drops the identity
loginRejectedMut(s) == [s EXCEPT !.isLoading = FALSE, !.user = Null]

\* login after POST /login rejected: only the finally block runs
loginRejected(s) == [s EXCEPT !.isLoading = FALSE]

\* register: setIsLoading(true), and the finally block
registerStart(s) == [s EXCEPT !.isLoading = TRUE]

\* a register that has no finally block
registerSettledMut(s) == s

registerSettled(s) == [s EXCEPT !.isLoading = FALSE]

\* logout without localStorage.removeItem
logoutKeepsToken(s, t) ==
    userEffect([s EXCEPT !.user = Null, !.showVerificationPopup = FALSE,
                         !.showBanPopup = FALSE], t)

\* logout without setShowVerificationPopup(false)
logoutMut(s, t) ==
    userEffect([s EXCEPT !.token = NoToken, !.user = Null,
                         !.showBanPopup = FALSE], t)

logout(s, t) ==
    userEffect([s EXCEPT !.token = NoToken, !.user = Null,
                         !.showVerificationPopup = FALSE,
                         !.showBanPopup = FALSE], t)

\* { ...prevUser, ...newUserData }
spread(prevUser, newUserData) ==
    [f \in UserFields |->
        IF f \in DOMAIN newUserData THEN newUserData[f] ELSE prevUser[f]]

\* a merge that loses a field the patch does not name
updateUserMut(s, newUserData, t) ==
    IF s.user = Null THEN s
    ELSE LET updatedUser ==
                 [f \in UserFields |->
                     IF f \in DOMAIN newUserData THEN newUserData[f]
                     ELSE IF f = "name" THEN NULL ELSE s.user[f]]
         IN userEffect([s EXCEPT !.user = updatedUser,
                           !.showBanPopup = isUserObjectBanned(updatedUser, t)], t)

updateUser(s, newUserData, t) ==
    IF s.user = Null THEN s
    ELSE LET updatedUser == spread(s.user, newUserData)
         IN userEffect([s EXCEPT !.user = updatedUser,
                           !.showBanPopup = isUserObjectBanned(updatedUser, t)], t)

-----------------------------------------------------------------------------
(* The admin dashboard (AdminPanelPage): values *)

\* a string concatenation, kept as the sequence of its pieces
Text1(a) == <<a>>
Msg(type, text) == [type |-> type, text |-> text]

\* new Date(s).toISOString().slice(0, 16) of a server timestamp
LOCAL_0 == "1970-01-01T00:00"
toISOStringSlice16(s) == IF s = ISO_1 THEN LOCAL_0 ELSE "RangeError"

\* new Date(s) for the strings the dashboard parses: a datetime-local value
\* is read as local time, taken here in a UTC environment
newDateDash(s) == IF s = LOCAL_0 THEN Num(0) ELSE newDate(s)

\* id.toString()
toString(id) == IF id = 1 THEN "1" ELSE "2"

\* UserProfileData, the fields the dashboard reads or writes and one it never
\* touches (email)
Profile(id, username, group, bu, br) ==
    [id |-> id, username |-> username,
     email |-> IF id = 1 THEN "ann@x" ELSE "bob@x",
     group |-> group, banned_until |-> bu, ban_reason |-> br]

Meta(current_page, last_page, total) ==
    [current_page |-> current_page, last_page |-> last_page,
     per_page |-> 15, total |-> total]

Stats(total_users, active_bans) ==
    [total_users |-> total_users, active_today |-> 0,
     active_bans |-> active_bans]

\* the useState initial values of the page, lines 64-99
DashInitial ==
    [mainTab |-> "user_management",
     users |-> <<>>,
     pagination |-> Meta(1, 1, 0),
     listLoading |-> FALSE,
     listError |-> NULL,
     searchQuery |-> "",
     selectedUser |-> Null,
     modalOpen |-> FALSE,
     modalActiveTab |-> "info",
     banReason |-> "",
     bannedUntil |-> "",
     newGroup |-> "",
     adminActionLoading |-> FALSE,
     adminActionMessage |-> Null,
     adminStats |-> Stats(0, 0),
     statsLoading |-> TRUE,
     statsError |-> NULL]

MailInitial ==
    [emailRecipientsType |-> "all",
     emailGroupNames |-> <<>>,
     emailSubject |-> "",
     emailMessage |-> "",
     emailSendingLoading |-> FALSE,
     emailSendingMessage |-> Null,
     selectedUserIdsForEmail |-> <<>>]

\* error.response?.data?.message || fallback
ErrMessage(err, fallback) ==
    IF "message" \in DOMAIN err /\ ~Falsy(err.message) THEN err.message
    ELSE fallback

\* what a handler leaves behind: the new state and the requests it issued
Out(d, send) == [d |-> d, send |-> send]

-----------------------------------------------------------------------------
(* The privilege gates of the page, lines 102-106 *)

canAccessPanel(u) ==
    hasPrivilege(u, Many(<<"Junior Support", "Support", "Senior Support",
                           "Admin", "Owner">>))

\* the ban gate without 'Senior Support'
canBanMut(u) == hasPrivilege(u, Many(<<"Admin", "Owner">>))

canBan(u) == hasPrivilege(u, Many(<<"Admin", "Owner", "Senior Support">>))
canChangeGroup(u) == hasPrivilege(u, Many(<<"Admin", "Owner">>))
canSeeFullInfo(u) ==
    hasPrivilege(u, Many(<<"Admin", "Owner", "Senior Support", "Support">>))
canSendEmail(u) == hasPrivilege(u, Many(<<"Admin", "Owner">>))

-----------------------------------------------------------------------------
(* The list and the stats *)

UsersReq(page, search) ==
    [kind |-> "GET /users", page |-> page, search |-> search]
StatsReq == [kind |-> "GET /admin/stats"]

\* fetchUsers up to the await
fetchUsersStart(d) == [d EXCEPT !.listLoading = TRUE, !.listError = NULL]

\* a fetchUsers that replaces the list and keeps the pagination
fetchUsersResolvedMut(d, data) ==
    [d EXCEPT !.users = data.data, !.listLoading = FALSE]

\* fetchUsers after GET /users resolved
fetchUsersResolved(d, data) ==
    [d EXCEPT !.users = data.data, !.pagination = data.meta,
              !.listLoading = FALSE]

\* fetchUsers after GET /users rejected
fetchUsersRejected(d, err) ==
    [d EXCEPT !.listError =
                  ErrMessage(err, "Failed to load users. Check your permissions."),
              !.listLoading = FALSE]

fetchStatsStart(d) == [d EXCEPT !.statsLoading = TRUE, !.statsError = NULL]
fetchStatsResolved(d, data) ==
    [d EXCEPT !.adminStats = data, !.statsLoading = FALSE]
fetchStatsRejected(d, err) ==
    [d EXCEPT !.statsError = ErrMessage(err, "Failed to load stats."),
              !.statsLoading = FALSE]

\* the effect on [canAccessPanel, fetchUsers, fetchStats, mainTab]
panelEffect(d, u) ==
    IF canAccessPanel(u)
    THEN Out(fetchUsersStart(fetchStatsStart(d)), <<StatsReq, UsersReq(1, "")>>)
    ELSE Out(d, <<>>)

handleSearchSubmit(d) ==
    Out(fetchUsersStart(d), <<UsersReq(1, d.searchQuery)>>)

\* the range test without its lower bound
handlePageChangeMut(d, page) ==
    IF page <= d.pagination.last_page
    THEN Out(fetchUsersStart(d), <<UsersReq(page, d.searchQuery)>>)
    ELSE Out(d, <<>>)

handlePageChange(d, page) ==
    IF page >= 1 /\ page <= d.pagination.last_page
    THEN Out(fetchUsersStart(d), <<UsersReq(page, d.searchQuery)>>)
    ELSE Out(d, <<>>)

-----------------------------------------------------------------------------
(* The user modal and the moderation actions *)

\* opening a user that keeps the tab the last modal was on
handleViewUserDetailsMut(d, u) ==
    [d EXCEPT !.selectedUser = u, !.modalOpen = TRUE,
              !.banReason = IF Falsy(u.ban_reason) THEN "" ELSE u.ban_reason,
              !.bannedUntil = IF Falsy(u.banned_until) THEN ""
                              ELSE toISOStringSlice16(u.banned_until),
              !.newGroup = u.group,
              !.adminActionMessage = Null,
              !.modalActiveTab = "moderation"]

handleViewUserDetails(d, u) ==
    [d EXCEPT !.selectedUser = u, !.modalOpen = TRUE,
              !.banReason = IF Falsy(u.ban_reason) THEN "" ELSE u.ban_reason,
              !.bannedUntil = IF Falsy(u.banned_until) THEN ""
                              ELSE toISOStringSlice16(u.banned_until),
              !.newGroup = u.group,
              !.adminActionMessage = Null,
              !.modalActiveTab = "info"]

\* the state closeModal sets, before its two fetches
closeModalState(d) ==
    [d EXCEPT !.modalOpen = FALSE, !.selectedUser = Null,
              !.adminActionMessage = Null, !.banReason = "",
              !.bannedUntil = "", !.newGroup = "", !.modalActiveTab = "info"]

\* a close that reloads page 1 of the unfiltered list
closeModalMut(d) ==
    Out(fetchStatsStart(fetchUsersStart(closeModalState(d))),
        <<UsersReq(1, ""), StatsReq>>)

closeModal(d) ==
    Out(fetchStatsStart(fetchUsersStart(closeModalState(d))),
        <<UsersReq(d.pagination.current_page, d.searchQuery), StatsReq>>)

BanReq(u, data) ==
    [kind |-> "POST /admin/users/{id}/ban", id |-> u.id,
     username |-> u.username, data |-> data]
UnbanReq(u) ==
    [kind |-> "POST /admin/users/{id}/unban", id |-> u.id,
     username |-> u.username]
GroupReq(u, group) ==
    [kind |-> "PUT /admin/users/{id}/group", id |-> u.id,
     username |-> u.username, data |-> [group |-> group]]

\* handleBanUser(permanent) up to the await
handleBanUser(d, permanent) ==
    IF d.selectedUser = Null THEN Out(d, <<>>)
    ELSE IF (~permanent /\ Falsy(d.bannedUntil)) \/ Falsy(d.banReason)
    THEN Out([d EXCEPT !.adminActionMessage =
                           Msg("error", Text1("Please fill all ban fields."))],
             <<>>)
    ELSE Out([d EXCEPT !.adminActionLoading = TRUE,
                       !.adminActionMessage = Null],
             <<BanReq(d.selectedUser,
                      IF permanent THEN [ban_reason |-> d.banReason]
                      ELSE [ban_reason |-> d.banReason,
                            banned_until |-> d.bannedUntil])>>)

\* data.banned_until || null
bannedUntilOf(data) ==
    IF "banned_until" \in DOMAIN data /\ ~Falsy(data.banned_until)
    THEN data.banned_until ELSE NULL

\* a ban success that also closes the modal
banResolvedMut(d, req) ==
    [d EXCEPT !.adminActionMessage =
                  Msg("success", <<"User ", req.username, " banned successfully!">>),
              !.selectedUser =
                  IF d.selectedUser = Null THEN Null
                  ELSE [d.selectedUser EXCEPT
                           !.banned_until = bannedUntilOf(req.data),
                           !.ban_reason = req.data.ban_reason],
              !.modalOpen = FALSE,
              !.adminActionLoading = FALSE]

\* handleBanUser after the POST resolved
banResolved(d, req) ==
    [d EXCEPT !.adminActionMessage =
                  Msg("success", <<"User ", req.username, " banned successfully!">>),
              !.selectedUser =
                  IF d.selectedUser = Null THEN Null
                  ELSE [d.selectedUser EXCEPT
                           !.banned_until = bannedUntilOf(req.data),
                           !.ban_reason = req.data.ban_reason],
              !.adminActionLoading = FALSE]

\* a failure that also empties the reason buffer
banRejectedMut(d, err) ==
    [d EXCEPT !.adminActionMessage =
                  Msg("error", Text1(ErrMessage(err,
                      "Failed to ban user. Check privileges or user ID."))),
              !.banReason = "",
              !.adminActionLoading = FALSE]

\* handleBanUser after the POST rejected
banRejected(d, err) ==
    [d EXCEPT !.adminActionMessage =
                  Msg("error", Text1(ErrMessage(err,
                      "Failed to ban user. Check privileges or user ID."))),
              !.adminActionLoading = FALSE]

handleUnbanUser(d) ==
    IF d.selectedUser = Null THEN Out(d, <<>>)
    ELSE Out([d EXCEPT !.adminActionLoading = TRUE,
                       !.adminActionMessage = Null],
             <<UnbanReq(d.selectedUser)>>)

\* the success branch of an unban that has no finally block
unbanResolvedMut(d, req) ==
    [d EXCEPT !.adminActionMessage =
                  Msg("success", <<"User ", req.username, " unbanned successfully!">>),
              !.selectedUser =
                  IF d.selectedUser = Null THEN Null
                  ELSE [d.selectedUser EXCEPT !.banned_until = NULL,
                                              !.ban_reason = NULL]]

unbanResolved(d, req) ==
    [d EXCEPT !.adminActionMessage =
                  Msg("success", <<"User ", req.username, " unbanned successfully!">>),
              !.selectedUser =
                  IF d.selectedUser = Null THEN Null
                  ELSE [d.selectedUser EXCEPT !.banned_until = NULL,
                                              !.ban_reason = NULL],
              !.adminActionLoading = FALSE]

unbanRejected(d, err) ==
    [d EXCEPT !.adminActionMessage =
                  Msg("error", Text1(ErrMessage(err,
                      "Failed to unban user. Check privileges or user ID."))),
              !.adminActionLoading = FALSE]

handleUpdateGroup(d) ==
    IF d.selectedUser = Null \/ Falsy(d.newGroup)
    THEN Out([d EXCEPT !.adminActionMessage =
                           Msg("error", Text1("Please select a new group."))],
             <<>>)
    ELSE Out([d EXCEPT !.adminActionLoading = TRUE,
                       !.adminActionMessage = Null],
             <<GroupReq(d.selectedUser, d.newGroup)>>)

groupResolved(d, req) ==
    [d EXCEPT !.adminActionMessage =
                  Msg("success", <<"User ", req.username,
                                   " group updated to ", req.data.group, "!">>),
              !.selectedUser =
                  IF d.selectedUser = Null THEN Null
                  ELSE [d.selectedUser EXCEPT !.group = req.data.group],
              !.adminActionLoading = FALSE]

groupRejected(d, err) ==
    [d EXCEPT !.adminActionMessage =
                  Msg("error", Text1(ErrMessage(err,
                      "Failed to update group. Check privileges or user ID."))),
              !.adminActionLoading = FALSE]

\* isUserBanned(user) of the page, lines 323-325
isUserBanned(u, t) ==
    ~Falsy(u.banned_until) /\ Gt(newDateDash(u.banned_until), Num(t))

-----------------------------------------------------------------------------
(* The bulk e-mail form *)

EmailReq(m) ==
    [kind |-> "POST /admin/send-email",
     recipients_type |-> m.emailRecipientsType,
     group_name |-> IF m.emailRecipientsType = "group"
                    THEN m.emailGroupNames ELSE Null,
     user_identifiers |->
         IF m.emailRecipientsType = "specific_users"
         THEN [i \in DOMAIN m.selectedUserIdsForEmail |->
                  toString(m.selectedUserIdsForEmail[i])]
         ELSE Null,
     subject |-> m.emailSubject,
     message |-> m.emailMessage]

\* the submit handler without the test for an empty group selection
handleEmailSendMut(m) ==
    IF m.emailRecipientsType = "specific_users"
       /\ Len(m.selectedUserIdsForEmail) = 0
    THEN Out([m EXCEPT !.emailSendingMessage =
                 Msg("error", Text1("Please select at least one user to send the email to.")),
                       !.emailSendingLoading = FALSE], <<>>)
    ELSE Out([m EXCEPT !.emailSendingLoading = TRUE,
                       !.emailSendingMessage = Null], <<EmailReq(m)>>)

\* handleEmailSend up to the await
handleEmailSend(m) ==
    IF m.emailRecipientsType = "specific_users"
       /\ Len(m.selectedUserIdsForEmail) = 0
    THEN Out([m EXCEPT !.emailSendingMessage =
                 Msg("error", Text1("Please select at least one user to send the email to.")),
                       !.emailSendingLoading = FALSE], <<>>)
    ELSE IF m.emailRecipientsType = "group" /\ Len(m.emailGroupNames) = 0
    THEN Out([m EXCEPT !.emailSendingMessage =
                 Msg("error", Text1("Please select at least one group.")),
                       !.emailSendingLoading = FALSE], <<>>)
    ELSE Out([m EXCEPT !.emailSendingLoading = TRUE,
                       !.emailSendingMessage = Null], <<EmailReq(m)>>)

emailResolved(m) ==
    [m EXCEPT !.emailSendingMessage =
                  Msg("success", Text1("Emails dispatched successfully!")),
              !.emailSubject = "", !.emailMessage = "",
              !.selectedUserIdsForEmail = <<>>, !.emailGroupNames = <<>>,
              !.emailSendingLoading = FALSE]

\* error.response?.data?.message || (errors joined) || fallback
emailRejected(m, err) ==
    [m EXCEPT !.emailSendingMessage =
                  Msg("error", Text1(
                      IF "message" \in DOMAIN err /\ ~Falsy(err.message)
                      THEN err.message
                      ELSE IF "errors" \in DOMAIN err THEN err.errors
                      ELSE "Failed to send email. Check your permissions or recipient criteria.")),
              !.emailSendingLoading = FALSE]

-----------------------------------------------------------------------------
(* Inputs *)

FieldDomain(f) ==
    CASE f = "name" -> {"Ann", "Bob"}
      [] f = "email_verified_at" -> {NULL, ISO_1}
      [] f = "group" -> StoreGroups
      [] f = "banned_until" -> {NULL, ISO_1, NotADate}

RECURSIVE PatchesOn(_)
PatchesOn(F) ==
    IF F = {} THEN {<<>>}
    ELSE LET f == CHOOSE g \in F : TRUE
         IN {(f :> v) @@ q : v \in FieldDomain(f), q \in PatchesOn(F \ {f})}

\* the Partial<User> objects passed to updateUser
PatchFields ==
    {{}, {"name"}, {"email_verified_at"}, {"group"}, {"banned_until"},
     {"banned_until", "email_verified_at"}}
Patches == UNION {PatchesOn(F) : F \in PatchFields}

InFlight == loginReqs + registerReqs

-----------------------------------------------------------------------------
(* Actions *)

Init ==
    /\ user = Null
    /\ token \in {NoToken} \cup Tokens
    /\ isLoading = FALSE
    /\ isVerifying = TRUE
    /\ showVerificationPopup = FALSE
    /\ showBanPopup = FALSE
    /\ now = 0
    /\ mounted = FALSE
    /\ userReq = FALSE
    /\ loginReqs = 0
    /\ registerReqs = 0
    /\ ret = NoRet
    /\ dash = DashInitial
    /\ mail = MailInitial
    /\ net = EmptyBag
    /\ panel = "unmounted"

\* the mount effect: verifyAuth() up to the await, or to its end without a token
Mount ==
    /\ ~mounted
    /\ mounted' = TRUE
    /\ IF token # NoToken
       THEN /\ userReq' = TRUE
            /\ ret' = Ret("verifyAuth", "pending", <<>>)
            /\ Commit(Store)
       ELSE /\ userReq' = FALSE
            /\ ret' = Ret("verifyAuth", "fulfilled", <<>>)
            /\ Commit(userEffect([Store EXCEPT !.isVerifying = FALSE], now))
    /\ UNCHANGED <<now, loginReqs, registerReqs>>
    /\ UNCHANGED dashVars

VerifyAuthOk ==
    /\ userReq
    /\ \E data \in ServerUsers :
          /\ Commit(verifyAuthResolved(Store, data, now))
          /\ ret' = Ret("verifyAuth", "fulfilled", data)
    /\ userReq' = FALSE
    /\ UNCHANGED <<now, mounted, loginReqs, registerReqs>>
    /\ UNCHANGED dashVars

VerifyAuthFail ==
    /\ userReq
    /\ Commit(verifyAuthRejected(Store, now))
    /\ ret' = Ret("verifyAuth", "fulfilled", [error |-> "Request failed"])
    /\ userReq' = FALSE
    /\ UNCHANGED <<now, mounted, loginReqs, registerReqs>>
    /\ UNCHANGED dashVars

\* consumers are rendered, and can call the store, only once isVerifying is false
Login ==
    /\ ~isVerifying
    /\ InFlight < MaxInFlight
    /\ Commit(loginStart(Store))
    /\ loginReqs' = loginReqs + 1
    /\ ret' = Ret("login", "pending", <<>>)
    /\ UNCHANGED <<now, mounted, userReq, registerReqs>>
    /\ UNCHANGED dashVars

LoginOk ==
    /\ loginReqs > 0
    /\ \E access_token \in Tokens, userData \in ServerUsers :
          /\ Commit(loginResolved(Store, access_token, userData, now))
          /\ ret' = Ret("login", "fulfilled",
                        [access_token |-> access_token, user |-> userData])
    /\ loginReqs' = loginReqs - 1
    /\ UNCHANGED <<now, mounted, userReq, registerReqs>>
    /\ UNCHANGED dashVars

LoginFail ==
    /\ loginReqs > 0
    /\ Commit(loginRejected(Store))
    /\ ret' = Ret("login", "rejected", <<>>)
    /\ loginReqs' = loginReqs - 1
    /\ UNCHANGED <<now, mounted, userReq, registerReqs>>
    /\ UNCHANGED dashVars

Register ==
    /\ ~isVerifying
    /\ InFlight < MaxInFlight
    /\ Commit(registerStart(Store))
    /\ registerReqs' = registerReqs + 1
    /\ ret' = Ret("register", "pending", <<>>)
    /\ UNCHANGED <<now, mounted, userReq, loginReqs>>
    /\ UNCHANGED dashVars

RegisterOk ==
    /\ registerReqs > 0
    /\ Commit(registerSettled(Store))
    /\ ret' = Ret("register", "fulfilled", <<>>)
    /\ registerReqs' = registerReqs - 1
    /\ UNCHANGED <<now, mounted, userReq, loginReqs>>
    /\ UNCHANGED dashVars

RegisterFail ==
    /\ registerReqs > 0
    /\ Commit(registerSettled(Store))
    /\ ret' = Ret("register", "rejected", <<>>)
    /\ registerReqs' = registerReqs - 1
    /\ UNCHANGED <<now, mounted, userReq, loginReqs>>
    /\ UNCHANGED dashVars

Logout ==
    /\ ~isVerifying
    /\ Commit(logout(Store, now))
    /\ ret' = Ret("logout", "void", <<>>)
    /\ UNCHANGED <<now, mounted, userReq, loginReqs, registerReqs>>
    /\ UNCHANGED dashVars

UpdateUser ==
    /\ ~isVerifying
    /\ \E newUserData \in Patches :
          /\ Commit(updateUser(Store, newUserData, now))
          /\ ret' = Ret("updateUser", "void", newUserData)
    /\ UNCHANGED <<now, mounted, userReq, loginReqs, registerReqs>>
    /\ UNCHANGED dashVars

SetShowVerificationPopup ==
    /\ ~isVerifying
    /\ \E v \in BOOLEAN :
          /\ showVerificationPopup' = v
          /\ ret' = Ret("setShowVerificationPopup", "void", [value |-> v])
    /\ UNCHANGED <<user, token, isLoading, isVerifying, showBanPopup, now,
                   mounted, userReq, loginReqs, registerReqs>>
    /\ UNCHANGED dashVars

SetShowBanPopup ==
    /\ ~isVerifying
    /\ \E v \in BOOLEAN :
          /\ showBanPopup' = v
          /\ ret' = Ret("setShowBanPopup", "void", [value |-> v])
    /\ UNCHANGED <<user, token, isLoading, isVerifying, showVerificationPopup,
                   now, mounted, userReq, loginReqs, registerReqs>>
    /\ UNCHANGED dashVars

IsBannedCall ==
    /\ ~isVerifying
    /\ ret' = Returns("isBanned", <<>>, isBanned)
    /\ UNCHANGED <<user, token, isLoading, isVerifying, showVerificationPopup,
                   showBanPopup, now, mounted, userReq, loginReqs, registerReqs>>
    /\ UNCHANGED dashVars

\* a consumer's pending hasPrivilege(requiredGroups) call returns
HasPrivilegeCall ==
    /\ ~isVerifying
    /\ ret.op = "call hasPrivilege"
    /\ ret' = Returns("hasPrivilege", ret.arg, hasPrivilege(user, ret.arg))
    /\ UNCHANGED <<user, token, isLoading, isVerifying, showVerificationPopup,
                   showBanPopup, now, mounted, userReq, loginReqs, registerReqs>>
    /\ UNCHANGED dashVars

\* time passes
Tick ==
    /\ now < MaxNow
    /\ now' = now + 1
    /\ ret' = NoRet
    /\ UNCHANGED <<user, token, isLoading, isVerifying, showVerificationPopup,
                   showBanPopup, mounted, userReq, loginReqs, registerReqs>>
    /\ UNCHANGED dashVars

StoreNext ==
    \/ Mount
    \/ VerifyAuthOk
    \/ VerifyAuthFail
    \/ Login
    \/ LoginOk
    \/ LoginFail
    \/ Register
    \/ RegisterOk
    \/ RegisterFail
    \/ Logout
    \/ UpdateUser
    \/ IsBannedCall
    \/ Tick

Next ==
    \/ StoreNext
    \/ SetShowVerificationPopup
    \/ SetShowBanPopup

Spec == Init /\ [][Next]_vars

\* the store driven by its own operations and the clock, the raw setters left out
StoreSpec == Init /\ [][StoreNext]_vars

\* every request settles, and the mount effect runs
FairSpec ==
    Spec /\ WF_vars(Mount) /\ WF_vars(VerifyAuthOk \/ VerifyAuthFail)

-----------------------------------------------------------------------------
(* A logout called while a POST /login is in flight: the store from there   *)
(* on, no further login started                                             *)

LateLoginInit ==
    /\ user = Null
    /\ token = NoToken
    /\ isLoading = TRUE
    /\ isVerifying = FALSE
    /\ showVerificationPopup = FALSE
    /\ showBanPopup = FALSE
    /\ now = 0
    /\ mounted = TRUE
    /\ userReq = FALSE
    /\ loginReqs = 1
    /\ registerReqs = 0
    /\ ret = Ret("logout", "void", <<>>)
    /\ dash = DashInitial
    /\ mail = MailInitial
    /\ net = EmptyBag
    /\ panel = "unmounted"

LateLoginNext ==
    \/ LoginOk
    \/ LoginFail
    \/ Register
    \/ RegisterOk
    \/ RegisterFail
    \/ Logout
    \/ UpdateUser
    \/ IsBannedCall
    \/ Tick

LateLoginSpec == LateLoginInit /\ [][LateLoginNext]_vars

-----------------------------------------------------------------------------
(* hasPrivilege applied to every identity and every argument *)

Labels ==
    {DefinedGroups[i] : i \in DOMAIN DefinedGroups} \cup {UnknownGroup, InheritedKey}

RequiredArgs ==
    {One(g) : g \in Labels}
    \cup {Many(gs) : gs \in UNION {[1..n -> Labels] : n \in 0..MaxReq}}

PrivInit ==
    /\ user \in {Null} \cup {User("Ann", ISO_1, g, NULL) : g \in Labels}
    /\ token = IF user = Null THEN NoToken ELSE "tokA"
    /\ isLoading = FALSE
    /\ isVerifying = FALSE
    /\ showVerificationPopup = FALSE
    /\ showBanPopup = FALSE
    /\ now = 0
    /\ mounted = TRUE
    /\ userReq = FALSE
    /\ loginReqs = 0
    /\ registerReqs = 0
    /\ ret \in {Ret("call hasPrivilege", "pending", a) : a \in RequiredArgs}
    /\ dash = DashInitial
    /\ mail = MailInitial
    /\ net = EmptyBag
    /\ panel = "unmounted"

PrivNext == HasPrivilegeCall

PrivSpec == PrivInit /\ [][PrivNext]_vars

-----------------------------------------------------------------------------
(* The admin dashboard: what the server and the administrator supply *)

AnnRec == Profile(1, "Ann", "Admin", NULL, NULL)
BobBanned == Profile(2, "Bob", "Basic Plan", ISO_1, "spam")
BobFree == Profile(2, "Bob", "Basic Plan", NULL, NULL)
UserLists == {<<AnnRec, BobBanned>>, <<BobFree>>}

\* the bodies GET /users answers a request for a page with
ListResponses(page) ==
    {[data |-> <<>>, meta |-> Meta(page, 1, 0)]}
    \cup {[data |-> l, meta |-> Meta(page, lp, Len(l) + 15 * (lp - 1))] :
             l \in UserLists, lp \in 1..MaxPage}

\* the answer of a server whose user table does not change
SteadyResponses(page) ==
    {[data |-> <<AnnRec, BobBanned>>,
      meta |-> Meta(page, MaxPage, 2 + 15 * (MaxPage - 1))]}

StatsResponses == {Stats(2, 1)}

\* error.response.data of a rejected request
Errors == {[message |-> "Forbidden."], [status |-> "500"]}
EmailErrors == Errors \cup {[errors |-> "The subject field is required."]}

SearchQueries == {"", "bo"}
BanReasons == {"", "spam"}
BannedUntils == {"", LOCAL_0}
NewGroups == {"Admin", "Basic Plan"}

\* the users a search text matches on a server whose user table does not
\* change: "bo" matches Bob only
Matching(search) ==
    IF search = "" THEN <<AnnRec, BobBanned>> ELSE <<BobBanned>>

\* the answer of that server to GET /users?page=&search=
Served(req) ==
    [data |-> Matching(req.search),
     meta |-> Meta(req.page, MaxPage,
                   Len(Matching(req.search)) + 15 * (MaxPage - 1))]

\* the identities the page is visited with
DashGroups == {"Basic Plan", "Junior Support", "Senior Support", "Admin"}
DashIdentities == {User("Ann", ISO_1, g, NULL) : g \in DashGroups}

\* the requests of a handler, as a bag
Sent(send) ==
    [r \in {send[i] : i \in DOMAIN send} |->
        Cardinality({i \in DOMAIN send : send[i] = r})]
One1(r) == SetToBag({r})
InNet(kind) == {r \in BagToSet(net) : r.kind = kind}

\* the page body is rendered (line 327) and the modal is not over it
PageShown == panel = "mounted" /\ ~isLoading /\ canAccessPanel(user)
ModalShown == PageShown /\ dash.modalOpen /\ dash.selectedUser # Null
ListShown == PageShown /\ ~ModalShown /\ dash.mainTab = "user_management"
ModerationShown == ModalShown /\ dash.modalActiveTab = "moderation" /\ canBan(user)
PermissionsShown ==
    ModalShown /\ dash.modalActiveTab = "permissions" /\ canChangeGroup(user)

StoreVars == <<user, token, isLoading, isVerifying, showVerificationPopup,
               showBanPopup, now, mounted, userReq, loginReqs, registerReqs>>

\* a handler ran: its state is committed and its requests are sent
Handled(op, arg, o) ==
    /\ BagCardinality(net) + Len(o.send) <= MaxNet
    /\ dash' = o.d
    /\ net' = net (+) Sent(o.send)
    /\ ret' = Ret(op, IF o.send = <<>> THEN "void" ELSE "pending", arg)
    /\ UNCHANGED <<mail, panel, StoreVars>>

\* a request settled and its continuation ran
Settled(op, outcome, req, d) ==
    /\ panel = "mounted"
    /\ dash' = d
    /\ net' = net (-) One1(req)
    /\ ret' = Ret(op, outcome, req)
    /\ UNCHANGED <<mail, panel, StoreVars>>

-----------------------------------------------------------------------------
(* The admin dashboard: actions *)

\* the page mounts: the redirect effect (109-113) and the load effect (149-156)
PanelMount ==
    /\ panel = "unmounted"
    /\ ~isVerifying
    /\ panel' = IF ~isLoading /\ ~canAccessPanel(user) THEN "left" ELSE "mounted"
    /\ LET o == panelEffect(dash, user) IN
          /\ dash' = o.d
          /\ net' = net (+) Sent(o.send)
          /\ ret' = Ret("mount", IF o.send = <<>> THEN "void" ELSE "pending", <<>>)
    /\ UNCHANGED <<mail, StoreVars>>

UsersOk ==
    \E req \in InNet("GET /users") :
        \E data \in ListResponses(req.page) :
            Settled("fetchUsers", "fulfilled", req, fetchUsersResolved(dash, data))

\* GET /users resolved by a server whose user table does not change
UsersOkSteady ==
    \E req \in InNet("GET /users") :
        \E data \in SteadyResponses(req.page) :
            Settled("fetchUsers", "fulfilled", req, fetchUsersResolved(dash, data))

UsersFail ==
    \E req \in InNet("GET /users"), err \in Errors :
        Settled("fetchUsers", "rejected", req, fetchUsersRejected(dash, err))

StatsOk ==
    \E req \in InNet("GET /admin/stats"), data \in StatsResponses :
        Settled("fetchStats", "fulfilled", req, fetchStatsResolved(dash, data))

StatsFail ==
    \E req \in InNet("GET /admin/stats"), err \in Errors :
        Settled("fetchStats", "rejected", req, fetchStatsRejected(dash, err))

ViewUserDetails ==
    \E k \in DOMAIN dash.users :
        /\ ListShown
        /\ dash' = handleViewUserDetails(dash, dash.users[k])
        /\ ret' = Ret("handleViewUserDetails", "void", dash.users[k])
        /\ UNCHANGED <<mail, net, panel, StoreVars>>

CloseModal ==
    /\ ModalShown
    /\ Handled("closeModal", <<>>, closeModal(dash))

\* the three tab buttons of the modal, lines 785-823
SetModalActiveTab ==
    \E t \in {"info", "moderation", "permissions"} :
        /\ ModalShown
        /\ t = "moderation" => canBan(user)
        /\ t = "permissions" => canChangeGroup(user)
        /\ t # dash.modalActiveTab
        /\ dash' = [dash EXCEPT !.modalActiveTab = t]
        /\ ret' = Ret("setModalActiveTab", "void", [value |-> t])
        /\ UNCHANGED <<mail, net, panel, StoreVars>>

SetBanReason ==
    \E v \in BanReasons :
        /\ ModerationShown
        /\ v # dash.banReason
        /\ dash' = [dash EXCEPT !.banReason = v]
        /\ ret' = Ret("setBanReason", "void", [value |-> v])
        /\ UNCHANGED <<mail, net, panel, StoreVars>>

SetBannedUntil ==
    \E v \in BannedUntils :
        /\ ModerationShown
        /\ v # dash.bannedUntil
        /\ dash' = [dash EXCEPT !.bannedUntil = v]
        /\ ret' = Ret("setBannedUntil", "void", [value |-> v])
        /\ UNCHANGED <<mail, net, panel, StoreVars>>

SetNewGroup ==
    \E v \in NewGroups :
        /\ PermissionsShown
        /\ v # dash.newGroup
        /\ dash' = [dash EXCEPT !.newGroup = v]
        /\ ret' = Ret("setNewGroup", "void", [value |-> v])
        /\ UNCHANGED <<mail, net, panel, StoreVars>>

\* s.trim() on the strings the forms hold
trim(s) == IF s = " " THEN "" ELSE s

\* the ban button, line 988: onClick={() => handleBanUser(false)}
BanClick ==
    /\ ModerationShown
    /\ ~(dash.adminActionLoading \/ Falsy(trim(dash.banReason)))
    /\ Handled("handleBanUser", [permanent |-> FALSE], handleBanUser(dash, FALSE))

\* a ban success that also patches the session identity when it is the
\* banned user
BanOkMut ==
    \E req \in InNet("POST /admin/users/{id}/ban") :
        /\ panel = "mounted"
        /\ dash' = banResolved(dash, req)
        /\ net' = net (-) One1(req)
        /\ ret' = Ret("handleBanUser", "fulfilled", req)
        /\ Commit(IF user # Null /\ user.name = req.username
                  THEN updateUser(Store, [banned_until |-> bannedUntilOf(req.data)], now)
                  ELSE Store)
        /\ UNCHANGED <<mail, panel, now, mounted, userReq, loginReqs, registerReqs>>

BanOk ==
    \E req \in InNet("POST /admin/users/{id}/ban") :
        Settled("handleBanUser", "fulfilled", req, banResolved(dash, req))

BanFail ==
    \E req \in InNet("POST /admin/users/{id}/ban"), err \in Errors :
        Settled("handleBanUser", "rejected", req, banRejected(dash, err))

\* the unban button, lines 996-999
UnbanClick ==
    /\ ModerationShown
    /\ ~(dash.adminActionLoading \/ ~isUserBanned(dash.selectedUser, now))
    /\ Handled("handleUnbanUser", <<>>, handleUnbanUser(dash))

UnbanOk ==
    \E req \in InNet("POST /admin/users/{id}/unban") :
        Settled("handleUnbanUser", "fulfilled", req, unbanResolved(dash, req))

UnbanFail ==
    \E req \in InNet("POST /admin/users/{id}/unban"), err \in Errors :
        Settled("handleUnbanUser", "rejected", req, unbanRejected(dash, err))

\* an update button that is not disabled while adminActionLoading
UpdateGroupClickMut ==
    /\ PermissionsShown
    /\ ~(\/ dash.newGroup = dash.selectedUser.group
         \/ dash.newGroup = "")
    /\ Handled("handleUpdateGroup", <<>>, handleUpdateGroup(dash))

\* the update button, lines 1047-1049
UpdateGroupClick ==
    /\ PermissionsShown
    /\ ~(\/ dash.adminActionLoading
         \/ dash.newGroup = dash.selectedUser.group
         \/ dash.newGroup = "")
    /\ Handled("handleUpdateGroup", <<>>, handleUpdateGroup(dash))

GroupOk ==
    \E req \in InNet("PUT /admin/users/{id}/group") :
        Settled("handleUpdateGroup", "fulfilled", req, groupResolved(dash, req))

GroupFail ==
    \E req \in InNet("PUT /admin/users/{id}/group"), err \in Errors :
        Settled("handleUpdateGroup", "rejected", req, groupRejected(dash, err))

DashInit ==
    /\ user \in DashIdentities
    /\ token = "tokA"
    /\ isLoading = FALSE
    /\ isVerifying = FALSE
    /\ showVerificationPopup = FALSE
    /\ showBanPopup = FALSE
    /\ now = 0
    /\ mounted = TRUE
    /\ userReq = FALSE
    /\ loginReqs = 0
    /\ registerReqs = 0
    /\ ret = NoRet
    /\ dash = DashInitial
    /\ mail = MailInitial
    /\ net = EmptyBag
    /\ panel = "unmounted"

\* the user-management tab and its modal, over a server whose user table
\* does not change
DashNext ==
    \/ PanelMount
    \/ UsersOkSteady
    \/ StatsOk
    \/ ViewUserDetails
    \/ CloseModal
    \/ SetModalActiveTab
    \/ SetBanReason
    \/ SetBannedUntil
    \/ SetNewGroup
    \/ BanClick
    \/ BanOk
    \/ BanFail
    \/ UnbanClick
    \/ UnbanOk
    \/ UnbanFail
    \/ UpdateGroupClick
    \/ GroupOk
    \/ GroupFail

DashSpec == DashInit /\ [][DashNext]_vars

-----------------------------------------------------------------------------
(* The user list: search, paging, and the fetches of closing the modal *)

\* GET /users resolved by the server that filters by the search text
UsersOkServed ==
    \E req \in InNet("GET /users") :
        Settled("fetchUsers", "fulfilled", req,
                fetchUsersResolved(dash, Served(req)))

\* the search input, lines 450-456
SetSearchQuery ==
    \E v \in SearchQueries :
        /\ ListShown
        /\ v # dash.searchQuery
        /\ dash' = [dash EXCEPT !.searchQuery = v]
        /\ ret' = Ret("setSearchQuery", "void", [value |-> v])
        /\ UNCHANGED <<mail, net, panel, StoreVars>>

\* the search form, lines 447-462: its submit button is disabled while
\* listLoading
SearchSubmit ==
    /\ ListShown
    /\ ~dash.listLoading
    /\ Handled("handleSearchSubmit", <<>>, handleSearchSubmit(dash))

\* the pager, lines 558-587: first and previous are disabled on page 1, next
\* and last on the last page, all four while listLoading
PageChange ==
    \E page \in {1, dash.pagination.current_page - 1,
                 dash.pagination.current_page + 1, dash.pagination.last_page} :
        /\ ListShown
        /\ dash.pagination.total > 0
        /\ ~dash.listLoading
        /\ page <= dash.pagination.current_page
              => dash.pagination.current_page # 1
        /\ page >= dash.pagination.current_page
              => dash.pagination.current_page # dash.pagination.last_page
        /\ Handled("handlePageChange", [page |-> page],
                   handlePageChange(dash, page))

ListNext ==
    \/ PanelMount
    \/ UsersOkServed
    \/ UsersFail
    \/ StatsOk
    \/ SetSearchQuery
    \/ SearchSubmit
    \/ PageChange
    \/ ViewUserDetails
    \/ CloseModal

ListSpec == DashInit /\ [][ListNext]_vars

-----------------------------------------------------------------------------
(* Two GET /users in flight: the page right after closeModal issued the      *)
(* second one, for the search text typed since the first; no further fetch   *)
(* is started                                                               *)

\* the request issued first, and the one closeModal has just issued
EarlierReq(d) == UsersReq(d.pagination.current_page, "")
LatestReq(d) == UsersReq(d.pagination.current_page, d.searchQuery)

StaleListStates ==
    {[DashInitial EXCEPT !.users = Served(UsersReq(p, "")).data,
                         !.pagination = Served(UsersReq(p, "")).meta,
                         !.searchQuery = "bo",
                         !.listLoading = TRUE,
                         !.adminStats = Stats(2, 1),
                         !.statsLoading = TRUE] : p \in 1..MaxPage}

StaleListInit ==
    /\ user = User("Ann", ISO_1, "Admin", NULL)
    /\ token = "tokA"
    /\ isLoading = FALSE
    /\ isVerifying = FALSE
    /\ showVerificationPopup = FALSE
    /\ showBanPopup = FALSE
    /\ now = 0
    /\ mounted = TRUE
    /\ userReq = FALSE
    /\ loginReqs = 0
    /\ registerReqs = 0
    /\ panel = "mounted"
    /\ mail = MailInitial
    /\ dash \in StaleListStates
    /\ net = Sent(<<EarlierReq(dash), LatestReq(dash), StatsReq>>)
    /\ ret = Ret("closeModal", "pending", <<>>)

StaleListNext ==
    \/ UsersOkServed
    \/ UsersFail
    \/ StatsOk
    \/ StatsFail
    \/ SetSearchQuery
    \/ ViewUserDetails

StaleListSpec == StaleListInit /\ [][StaleListNext]_vars


EmailOk ==
    \E req \in InNet("POST /admin/send-email") :
        /\ panel = "mounted"
        /\ mail' = emailResolved(mail)
        /\ net' = net (-) One1(req)
        /\ ret' = Ret("handleEmailSend", "fulfilled", req)
        /\ UNCHANGED <<dash, panel, StoreVars>>

EmailFail ==
    \E req \in InNet("POST /admin/send-email"), err \in EmailErrors :
        /\ panel = "mounted"
        /\ mail' = emailRejected(mail, err)
        /\ net' = net (-) One1(req)
        /\ ret' = Ret("handleEmailSend", "rejected", req)
        /\ UNCHANGED <<dash, panel, StoreVars>>

-----------------------------------------------------------------------------
(* The page while the session identity changes: the store's updateUser and  *)
(* logout called with the page open, the e-mail tab                         *)

\* the e-mail form is rendered, line 597
MailShown ==
    PageShown /\ ~ModalShown /\ dash.mainTab = "send_email" /\ canSendEmail(user)

\* the sidebar buttons, lines 409-432; the load effect depends on mainTab
SetMainTab ==
    \E t \in {"user_management", "send_email"} :
        /\ PageShown
        /\ ~ModalShown
        /\ t = "send_email" => canSendEmail(user)
        /\ t # dash.mainTab
        /\ Handled("setMainTab", [value |-> t],
                   panelEffect([dash EXCEPT !.mainTab = t], user))

SetEmailSubject ==
    \E v \in {"", "Hi"} :
        /\ MailShown
        /\ v # mail.emailSubject
        /\ mail' = [mail EXCEPT !.emailSubject = v]
        /\ ret' = Ret("setEmailSubject", "void", [value |-> v])
        /\ UNCHANGED <<dash, net, panel, StoreVars>>

SetEmailMessage ==
    \E v \in {"", "Body"} :
        /\ MailShown
        /\ v # mail.emailMessage
        /\ mail' = [mail EXCEPT !.emailMessage = v]
        /\ ret' = Ret("setEmailMessage", "void", [value |-> v])
        /\ UNCHANGED <<dash, net, panel, StoreVars>>

\* an e-mail form rendered on the tab alone, without canSendEmail
EmailSubmitMut ==
    /\ PageShown /\ ~ModalShown /\ dash.mainTab = "send_email"
    /\ ~(\/ mail.emailSendingLoading
         \/ Falsy(trim(mail.emailSubject))
         \/ Falsy(trim(mail.emailMessage)))
    /\ LET o == handleEmailSend(mail) IN
          /\ BagCardinality(net) + Len(o.send) <= MaxNet
          /\ mail' = o.d
          /\ net' = net (+) Sent(o.send)
          /\ ret' = Ret("handleEmailSend",
                        IF o.send = <<>> THEN "void" ELSE "pending", <<>>)
    /\ UNCHANGED <<dash, panel, StoreVars>>

\* the form's submit button, lines 721-725
EmailSubmit ==
    /\ MailShown
    /\ ~(\/ mail.emailSendingLoading
         \/ Falsy(trim(mail.emailSubject))
         \/ Falsy(trim(mail.emailMessage))
         \/ (mail.emailRecipientsType = "group"
               /\ Len(mail.emailGroupNames) = 0)
         \/ (mail.emailRecipientsType = "specific_users"
               /\ Len(mail.selectedUserIdsForEmail) = 0))
    /\ LET o == handleEmailSend(mail) IN
          /\ BagCardinality(net) + Len(o.send) <= MaxNet
          /\ mail' = o.d
          /\ net' = net (+) Sent(o.send)
          /\ ret' = Ret("handleEmailSend",
                        IF o.send = <<>> THEN "void" ELSE "pending", <<>>)
    /\ UNCHANGED <<dash, panel, StoreVars>>

\* the page renders again with the identity the store now holds: the redirect
\* effect (109-113) and the load effect (149-156) run when canAccessPanel or
\* authLoading changed
Rerendered ==
    LET o == IF canAccessPanel(user') /\ ~canAccessPanel(user)
             THEN panelEffect(dash, user') ELSE Out(dash, <<>>)
    IN /\ panel' = IF ~isLoading' /\ ~canAccessPanel(user')
                   THEN "left" ELSE panel
       /\ dash' = o.d
       /\ net' = net (+) Sent(o.send)

\* updateUser({ group }) called while the page is open
PanelUpdateUser ==
    \E g \in DashGroups :
        /\ panel = "mounted"
        /\ user # Null
        /\ g # user.group
        /\ Commit(updateUser(Store, [group |-> g], now))
        /\ ret' = Ret("updateUser", "void", [group |-> g])
        /\ Rerendered
        /\ UNCHANGED <<mail, now, mounted, userReq, loginReqs, registerReqs>>

\* logout called while the page is open
PanelLogout ==
    /\ panel = "mounted"
    /\ Commit(logout(Store, now))
    /\ ret' = Ret("logout", "void", <<>>)
    /\ Rerendered
    /\ UNCHANGED <<mail, now, mounted, userReq, loginReqs, registerReqs>>

\* the responses to moderation requests are not part of it: they start no
\* request and no gate reads what they write
GateNext ==
    \/ PanelMount
    \/ UsersOkSteady
    \/ StatsOk
    \/ ViewUserDetails
    \/ CloseModal
    \/ SetModalActiveTab
    \/ SetNewGroup
    \/ BanClick
    \/ UnbanClick
    \/ UpdateGroupClick
    \/ SetMainTab
    \/ SetEmailSubject
    \/ SetEmailMessage
    \/ EmailSubmit
    \/ EmailOk
    \/ PanelUpdateUser
    \/ PanelLogout

GateSpec == DashInit /\ [][GateNext]_vars

\* every moderation request settles
FairDashSpec ==
    /\ DashSpec
    /\ WF_vars(BanOk \/ BanFail)
    /\ WF_vars(UnbanOk \/ UnbanFail)
    /\ WF_vars(GroupOk \/ GroupFail)


-----------------------------------------------------------------------------
(* Each handler of the page, called in the states and with the arguments it *)
(* can meet, and the requests it issues settled                             *)

BanReasonTexts == {"", " ", "spam"}
GroupChoices == {""} \cup NewGroups

\* the page after a list and the stats arrived
ListStates ==
    {[DashInitial EXCEPT !.users = r.data, !.pagination = r.meta,
                         !.searchQuery = q, !.adminStats = Stats(2, 1),
                         !.statsLoading = FALSE] :
        q \in SearchQueries, r \in UNION {ListResponses(p) : p \in 1..MaxPage}}

Listed(d) == {d.users[k] : k \in DOMAIN d.users}

Scenario(d, m, n, c) == [dash |-> d, mail |-> m, net |-> n, call |-> c]
Call(op, arg) == Ret(op, "pending", arg)

ListScenarios ==
    {Scenario(d, MailInitial, EmptyBag, c) :
        d \in ListStates,
        c \in {Call("call handlePageChange", [page |-> p]) : p \in 0..(MaxPage + 1)}
              \cup {Call("call handleSearchSubmit", <<>>)}}
    \cup UNION {{Scenario(d, MailInitial, EmptyBag,
                          Call("call handleViewUserDetails", u)) : u \in Listed(d)} :
                   d \in ListStates}

\* the page with the unchanging server's first page listed
SteadyList ==
    CHOOSE d \in ListStates :
        /\ d.searchQuery = ""
        /\ [data |-> d.users, meta |-> d.pagination] \in SteadyResponses(1)

\* the modal open on a listed user, its tab chosen and its form filled in
ActionStates ==
    {[handleViewUserDetails(SteadyList, u) EXCEPT
         !.modalActiveTab = t, !.banReason = br, !.bannedUntil = bu,
         !.newGroup = g] :
        u \in Listed(SteadyList), t \in {"moderation", "permissions"},
        br \in BanReasonTexts, bu \in BannedUntils, g \in GroupChoices}

ActionCalls ==
    {Call("call handleBanUser", [permanent |-> b]) : b \in BOOLEAN}
    \cup {Call("call handleUnbanUser", <<>>), Call("call handleUpdateGroup", <<>>)}

ActionScenarios ==
    {Scenario(d, MailInitial, EmptyBag, c) :
        d \in ActionStates \cup {SteadyList}, c \in ActionCalls}

\* the modal open on a listed user: as opened, with a success shown, or with
\* a ban of that user in flight
Opened(d) ==
    UNION {{[handleViewUserDetails(d, u) EXCEPT !.modalActiveTab = t] :
               t \in {"info", "moderation", "permissions"}} : u \in Listed(d)}
Shown(x) ==
    [x EXCEPT !.adminActionMessage =
                  Msg("success", <<"User ", x.selectedUser.username,
                                   " unbanned successfully!">>)]
Banning(x) ==
    LET y == [x EXCEPT !.banReason = "spam", !.bannedUntil = LOCAL_0]
    IN handleBanUser(y, FALSE)

CloseScenarios ==
    UNION {UNION {{Scenario(x, MailInitial, EmptyBag, Call("call closeModal", <<>>)),
                   Scenario(Shown(x), MailInitial, EmptyBag,
                            Call("call closeModal", <<>>)),
                   Scenario(Banning(x).d, MailInitial, Sent(Banning(x).send),
                            Call("call closeModal", <<>>))} :
                     x \in Opened(d)} :
              d \in ListStates}

\* the e-mail form as it can be filled in
MailStates ==
    {[emailRecipientsType |-> ty,
      emailGroupNames |-> IF ty = "group" THEN gs ELSE <<>>,
      emailSubject |-> sb,
      emailMessage |-> ms,
      emailSendingLoading |-> FALSE,
      emailSendingMessage |-> pm,
      selectedUserIdsForEmail |-> IF ty = "specific_users" THEN ids ELSE <<>>] :
        ty \in {"all", "group", "specific_users"},
        gs \in {<<>>, <<"Admin">>}, ids \in {<<>>, <<2>>, <<1, 2>>},
        sb \in {"", "Hi"}, ms \in {"", "Body"},
        pm \in {Null, Msg("success", Text1("Emails dispatched successfully!"))}}

MailScenarios ==
    {Scenario([SteadyList EXCEPT !.mainTab = "send_email"], m, EmptyBag,
              Call("call handleEmailSend", <<>>)) : m \in MailStates}

CallScenarios ==
    ListScenarios \cup ActionScenarios \cup CloseScenarios \cup MailScenarios

CallInit ==
    /\ user = User("Ann", ISO_1, "Admin", NULL)
    /\ token = "tokA"
    /\ isLoading = FALSE
    /\ isVerifying = FALSE
    /\ showVerificationPopup = FALSE
    /\ showBanPopup = FALSE
    /\ now = 0
    /\ mounted = TRUE
    /\ userReq = FALSE
    /\ loginReqs = 0
    /\ registerReqs = 0
    /\ panel = "mounted"
    /\ \E sc \in CallScenarios :
          /\ dash = sc.dash
          /\ mail = sc.mail
          /\ net = sc.net
          /\ ret = sc.call

CallPageChange ==
    /\ ret.op = "call handlePageChange"
    /\ Handled("handlePageChange", ret.arg, handlePageChange(dash, ret.arg.page))

CallSearchSubmit ==
    /\ ret.op = "call handleSearchSubmit"
    /\ Handled("handleSearchSubmit", <<>>, handleSearchSubmit(dash))

CallViewUserDetails ==
    /\ ret.op = "call handleViewUserDetails"
    /\ dash' = handleViewUserDetails(dash, ret.arg)
    /\ ret' = Ret("handleViewUserDetails", "void", ret.arg)
    /\ UNCHANGED <<mail, net, panel, StoreVars>>

CallCloseModal ==
    /\ ret.op = "call closeModal"
    /\ Handled("closeModal", <<>>, closeModal(dash))

CallBanUser ==
    /\ ret.op = "call handleBanUser"
    /\ Handled("handleBanUser", ret.arg, handleBanUser(dash, ret.arg.permanent))

CallUnbanUser ==
    /\ ret.op = "call handleUnbanUser"
    /\ Handled("handleUnbanUser", <<>>, handleUnbanUser(dash))

CallUpdateGroup ==
    /\ ret.op = "call handleUpdateGroup"
    /\ Handled("handleUpdateGroup", <<>>, handleUpdateGroup(dash))

CallEmailSend ==
    /\ ret.op = "call handleEmailSend"
    /\ LET o == handleEmailSend(mail) IN
          /\ BagCardinality(net) + Len(o.send) <= MaxNet
          /\ mail' = o.d
          /\ net' = net (+) Sent(o.send)
          /\ ret' = Ret("handleEmailSend",
                        IF o.send = <<>> THEN "void" ELSE "pending", <<>>)
    /\ UNCHANGED <<dash, panel, StoreVars>>

CallNext ==
    \/ CallPageChange
    \/ CallSearchSubmit
    \/ CallViewUserDetails
    \/ CallCloseModal
    \/ CallBanUser
    \/ CallUnbanUser
    \/ CallUpdateGroup
    \/ CallEmailSend
    \/ UsersOk
    \/ UsersFail
    \/ StatsOk
    \/ StatsFail
    \/ BanOk
    \/ BanFail
    \/ UnbanOk
    \/ UnbanFail
    \/ GroupOk
    \/ GroupFail
    \/ EmailOk
    \/ EmailFail

CallSpec == CallInit /\ [][CallNext]_vars

-----------------------------------------------------------------------------
(* The claimed order: Basic Plan < Premium Plan < Junior Support < Support  *)
(* < Senior Support < Admin < Owner, every other label below all of them.   *)

IsDefined(g) == \E i \in DOMAIN DefinedGroups : DefinedGroups[i] = g
Tier(g) ==
    IF IsDefined(g)
    THEN CHOOSE i \in DOMAIN DefinedGroups : DefinedGroups[i] = g
    ELSE 0
AllDefined(gs) == \A i \in DOMAIN gs : IsDefined(gs[i])

Returned(op) == ret.op = op /\ ret.outcome = "returned"
\* the step is operation op ending with the given outcome
Did(op, outcome) == ret'.op = op /\ ret'.outcome = outcome

\* C1: hasPrivilege(r) for a single defined role r is true iff an identity is
\* held and its group ranks at or above r in the seven-tier order; with no
\* identity held hasPrivilege is false for every argument.
C1_SingleRole ==
    Returned("hasPrivilege") =>
        /\ (~ret.arg.isArray /\ IsDefined(ret.arg.group)) =>
              (ret.val <=> (user # Null /\ Tier(user.group) >= Tier(ret.arg.group)))
        /\ user = Null => ret.val = FALSE

C1_Witness ==
    /\ Returned("hasPrivilege")
    /\ user # Null
    /\ user.group = "Admin"
    /\ ret.arg = One("Support")
    /\ ret.val = TRUE

\* C2: hasPrivilege(S) for an array S of defined roles is true iff the held
\* identity's group ranks at or above at least one member of S, and false
\* for the empty array.
C2_AnyOfSet ==
    (Returned("hasPrivilege") /\ user # Null /\ ret.arg.isArray
        /\ AllDefined(ret.arg.groups)) =>
        (ret.val <=> \E i \in DOMAIN ret.arg.groups :
                        Tier(user.group) >= Tier(ret.arg.groups[i]))

C2_Witness ==
    /\ Returned("hasPrivilege")
    /\ user # Null
    /\ user.group = "Support"
    /\ ret.arg = Many(<<"Admin", "Owner", "Senior Support">>)
    /\ ret.val = FALSE

\* C3: an identity whose group is none of the seven defined labels has no
\* privilege against any defined role or any non-empty array of defined roles.
C3_UnknownLeast ==
    (Returned("hasPrivilege") /\ user # Null /\ ~IsDefined(user.group)) =>
        /\ (~ret.arg.isArray /\ IsDefined(ret.arg.group)) => ret.val = FALSE
        /\ (ret.arg.isArray /\ ret.arg.groups # <<>> /\ AllDefined(ret.arg.groups))
              => ret.val = FALSE

C3_Witness ==
    /\ Returned("hasPrivilege")
    /\ user # Null
    /\ user.group = UnknownGroup
    /\ ret.arg = One("Basic Plan")
    /\ ret.val = FALSE

-----------------------------------------------------------------------------
(* The claimed ban window: banned_until is set and names an instant         *)
(* strictly later than t.                                                   *)

Instants == (ISO_1 :> 1)
LaterThan(d, t) == d \in DOMAIN Instants /\ Instants[d] > t
InBanWindow(u, t) ==
    u # Null /\ u.banned_until # NULL /\ LaterThan(u.banned_until, t)

\* C4: isBanned() returns true iff an identity is held whose banned_until is
\* non-null and strictly later than the clock at the call (equal instants
\* give false), whatever the clock did since the identity was stored.
C4_IsBannedStrict ==
    Returned("isBanned") => (ret.val <=> InBanWindow(user, now))

C4_Witness ==
    /\ Returned("isBanned")
    /\ user # Null
    /\ user.banned_until = ISO_1
    /\ now = Instants[ISO_1]
    /\ ret.val = FALSE

\* C5: in every reachable state the store's is-banned flag (showBanPopup)
\* agrees with the ban window of the held identity at the current time.
C5_FlagNeverStale == showBanPopup <=> InBanWindow(user, now)

\* C6: a failed login leaves identity, token and both popup flags as they
\* were (login's own first step touches none of them either), ends with
\* isLoading false and rejects to the caller.
C6_LoginFailureNoPartialState ==
    [][ /\ Login => UNCHANGED <<user, token, showVerificationPopup, showBanPopup>>
        /\ LoginFail =>
              /\ UNCHANGED <<user, token, showVerificationPopup, showBanPopup>>
              /\ isLoading' = FALSE
              /\ ret'.op = "login" /\ ret'.outcome = "rejected" ]_vars

C6_Witness ==
    /\ ret.op = "login" /\ ret.outcome = "rejected"
    /\ user # Null
    /\ token # NoToken
    /\ showVerificationPopup
    /\ ~isLoading

\* C7: a successful login stores the returned token and identity and leaves
\* the needs-verification flag true iff the returned email_verified_at is
\* null and the is-banned flag true iff the returned banned_until is strictly
\* in the future, whatever the store held before.
C7_LoginSuccessRecomputes ==
    [][ Did("login", "fulfilled") =>
          /\ token' = ret'.arg.access_token
          /\ user' = ret'.arg.user
          /\ showVerificationPopup' <=> (ret'.arg.user.email_verified_at = NULL)
          /\ showBanPopup' <=> InBanWindow(ret'.arg.user, now) ]_vars

\* C8: session restoration never throws and always completes: without a
\* token no request is issued and no identity is held; a failed validation
\* removes the token and leaves no identity and no ban flag; on every path
\* isVerifying is false once the mount effect has run and no request is
\* pending, and it does become false.
C8_RestoreCompletes ==
    /\ [][ /\ (Mount /\ token = NoToken) =>
                 /\ ~userReq' /\ user' = Null /\ ~isVerifying'
                 /\ ret'.outcome = "fulfilled"
           /\ (Mount /\ token # NoToken) => userReq' /\ isVerifying'
           /\ VerifyAuthFail =>
                 /\ token' = NoToken /\ user' = Null /\ ~showBanPopup'
                 /\ ~isVerifying' /\ ret'.outcome = "fulfilled"
           /\ VerifyAuthOk => ~isVerifying' /\ ret'.outcome = "fulfilled" ]_vars
    /\ []((mounted /\ ~userReq) => ~isVerifying)
    /\ <>(~isVerifying)

C8_Witness ==
    /\ ret.op = "verifyAuth" /\ ret.outcome = "fulfilled" /\ "error" \in DOMAIN ret.arg
    /\ token = NoToken
    /\ user = Null
    /\ ~isVerifying

\* C9: logout always leaves identity null, token absent and both popup flags
\* false, and a second logout changes nothing the first left.
C9_LogoutIdempotent ==
    /\ [][ Did("logout", "void") =>
             /\ user' = Null /\ token' = NoToken
             /\ ~showVerificationPopup' /\ ~showBanPopup' ]_vars
    /\ [](logout(logout(Store, now), now) = logout(Store, now))

C9_Witness ==
    /\ ret.op = "logout"
    /\ user = Null
    /\ token = NoToken
    /\ loginReqs > 0

\* C10: updateUser(p) on a held identity gives every field named in p the
\* value p has and leaves every other field and the token unchanged; with no
\* identity held it leaves the identity null and changes no other store state.
C10_UpdateMerges ==
    [][ Did("updateUser", "void") =>
          LET p == ret'.arg IN
          IF user = Null
          THEN /\ user' = Null
               /\ UNCHANGED <<token, isLoading, isVerifying,
                              showVerificationPopup, showBanPopup>>
          ELSE /\ user' # Null
               /\ \A f \in UserFields :
                     user'[f] = IF f \in DOMAIN p THEN p[f] ELSE user[f]
               /\ token' = token ]_vars

C10_Witness ==
    /\ ret.op = "updateUser"
    /\ DOMAIN ret.arg = {"banned_until"}
    /\ user # Null
    /\ user.banned_until = ISO_1
    /\ user.name = "Bob"
    /\ user.group = "Admin"

\* C11: after updateUser(p) on a held identity the is-banned flag equals the
\* ban-window check on the merged identity and the needs-verification flag
\* equals (the merged email_verified_at is null).
C11_UpdateRecomputesFlags ==
    [][ (Did("updateUser", "void") /\ user # Null) =>
          /\ showBanPopup' <=> InBanWindow(user', now)
          /\ showVerificationPopup' <=> (user'.email_verified_at = NULL) ]_vars

\* C12: handlePageChange(p) with p < 1 or p > pagination.last_page issues no
\* request and changes no dashboard state; with p inside the range it issues
\* exactly one GET /users for page p, with the current search text.
C12_PageChangeInRange ==
    [][ ret'.op = "handlePageChange" =>
          LET p == ret'.arg.page IN
          IF p < 1 \/ p > dash.pagination.last_page
          THEN UNCHANGED <<dash, mail, net, panel>>
          ELSE net' = net (+) One1(UsersReq(p, dash.searchQuery)) ]_vars

C12_Witness ==
    /\ ret.op = "handlePageChange"
    /\ ret.arg.page = dash.pagination.last_page + 1
    /\ ret.arg.page <= MaxPage
    /\ net = EmptyBag
    /\ ~dash.listLoading

-----------------------------------------------------------------------------
(* The moderation actions of the modal *)

\* what a successful action leaves of the record r it finds selected
Patched(r, req) ==
    CASE req.kind = "POST /admin/users/{id}/ban" ->
             [r EXCEPT !.banned_until =
                           IF "banned_until" \in DOMAIN req.data
                           THEN req.data.banned_until ELSE NULL,
                       !.ban_reason = req.data.ban_reason]
      [] req.kind = "POST /admin/users/{id}/unban" ->
             [r EXCEPT !.banned_until = NULL, !.ban_reason = NULL]
      [] req.kind = "PUT /admin/users/{id}/group" ->
             [r EXCEPT !.group = req.data.group]

ModerationOps == {"handleBanUser", "handleUnbanUser", "handleUpdateGroup"}

\* C13: a successful ban sets banned_until and ban_reason of the selected
\* record to the submitted values, a successful unban sets both to null, a
\* successful group change sets group; every other field of the record, the
\* user list, the modal-open flag and the active tab are unchanged, and the
\* action message is of type success.
C13_SuccessPatchesSelected ==
    [][ (ret'.op \in ModerationOps /\ ret'.outcome = "fulfilled") =>
          /\ dash'.selectedUser =
                 IF dash.selectedUser = Null THEN Null
                 ELSE Patched(dash.selectedUser, ret'.arg)
          /\ dash'.users = dash.users
          /\ dash'.modalOpen = dash.modalOpen
          /\ dash'.modalActiveTab = dash.modalActiveTab
          /\ dash'.adminActionMessage.type = "success" ]_vars

C13_Witness ==
    /\ ret.op = "handleBanUser"
    /\ ret.outcome = "fulfilled"
    /\ dash.modalOpen
    /\ dash.modalActiveTab = "moderation"
    /\ dash.selectedUser # Null
    /\ dash.selectedUser.username = "Ann"
    /\ dash.selectedUser.banned_until = LOCAL_0
    /\ dash.selectedUser.ban_reason = "spam"
    /\ dash.selectedUser.group = "Admin"

\* the texts a failed action may show: the server's message, or the
\* handler's own
FailureTexts(op) ==
    {Text1(e.message) : e \in {x \in Errors : "message" \in DOMAIN x}}
    \cup {Text1(CASE op = "handleBanUser" ->
                        "Failed to ban user. Check privileges or user ID."
                  [] op = "handleUnbanUser" ->
                        "Failed to unban user. Check privileges or user ID."
                  [] op = "handleUpdateGroup" ->
                        "Failed to update group. Check privileges or user ID.")}

\* C14: a failed ban, unban or group change leaves the selected record, the
\* form buffers (banReason, bannedUntil, newGroup), the user list, the
\* modal-open flag and the active tab as they were; the action message is an
\* error carrying the server's message or the generic fallback, and
\* adminActionLoading is false.
C14_FailureKeepsState ==
    [][ (ret'.op \in ModerationOps /\ ret'.outcome = "rejected") =>
          /\ dash'.selectedUser = dash.selectedUser
          /\ dash'.banReason = dash.banReason
          /\ dash'.bannedUntil = dash.bannedUntil
          /\ dash'.newGroup = dash.newGroup
          /\ dash'.users = dash.users
          /\ dash'.modalOpen = dash.modalOpen
          /\ dash'.modalActiveTab = dash.modalActiveTab
          /\ dash'.adminActionMessage.type = "error"
          /\ dash'.adminActionMessage.text \in FailureTexts(ret'.op)
          /\ dash'.adminActionLoading = FALSE ]_vars

C14_Witness ==
    /\ ret.op = "handleBanUser"
    /\ ret.outcome = "rejected"
    /\ dash.modalOpen
    /\ dash.selectedUser # Null
    /\ dash.selectedUser.banned_until = NULL
    /\ dash.banReason = "spam"
    /\ dash.bannedUntil = LOCAL_0
    /\ dash.adminActionMessage # Null
    /\ dash.adminActionMessage.text = Text1("Forbidden.")

-----------------------------------------------------------------------------
(* The handlers' own validation *)

\* the handler op ran up to its return or its first await
Called(op) == ret'.op = op /\ ret'.outcome \in {"void", "pending"}

\* the state a failed validation leaves: an error message, nothing else new
Refused(before, after, message, loading) ==
    /\ net' = net
    /\ after[message] # Null
    /\ after[message].type = "error"
    /\ after[loading] = FALSE
    /\ \A f \in DOMAIN before \ {message, loading} : after[f] = before[f]

\* C15: a ban of the selected user with an empty reason (or, not permanent,
\* with an empty end time), a group change with no group chosen, an e-mail to
\* specific users with none selected and an e-mail to groups with none
\* selected issue no request, set an error message, leave the loading flag
\* false and change nothing else.
C15_ValidationStopsRequest ==
    [][ /\ ( /\ Called("handleBanUser")
             /\ dash.selectedUser # Null
             /\ ~dash.adminActionLoading
             /\ \/ dash.banReason = ""
                \/ ~ret'.arg.permanent /\ dash.bannedUntil = "" )
           => ( /\ Refused(dash, dash', "adminActionMessage", "adminActionLoading")
                /\ mail' = mail )
        /\ ( /\ Called("handleUpdateGroup")
             /\ ~dash.adminActionLoading
             /\ dash.newGroup = "" )
           => ( /\ Refused(dash, dash', "adminActionMessage", "adminActionLoading")
                /\ mail' = mail )
        /\ ( /\ Called("handleEmailSend")
             /\ \/ /\ mail.emailRecipientsType = "specific_users"
                   /\ mail.selectedUserIdsForEmail = <<>>
                \/ /\ mail.emailRecipientsType = "group"
                   /\ mail.emailGroupNames = <<>> )
           => ( /\ Refused(mail, mail', "emailSendingMessage", "emailSendingLoading")
                /\ dash' = dash ) ]_vars

C15_Witness ==
    /\ ret.op = "handleEmailSend"
    /\ ret.outcome = "void"
    /\ mail.emailRecipientsType = "group"
    /\ mail.emailGroupNames = <<>>
    /\ mail.emailSubject = "Hi"
    /\ mail.emailSendingMessage =
           Msg("error", Text1("Please select at least one group."))
    /\ net = EmptyBag

-----------------------------------------------------------------------------
(* The ban form: 'Leave empty for permanent ban' *)

\* C16: with a reason given and the duration left empty, pressing the ban
\* button (then labelled 'Permanent Ban') issues POST /admin/users/{id}/ban
\* carrying the reason and no banned_until.
C16_EmptyDurationBansPermanently ==
    [][ ( /\ Called("handleBanUser")
          /\ dash.selectedUser # Null
          /\ dash.banReason = "spam"
          /\ dash.bannedUntil = "" )
        => net' = net (+) One1(BanReq(dash.selectedUser,
                                      [ban_reason |-> dash.banReason])) ]_vars

-----------------------------------------------------------------------------
(* Closing the modal *)

\* C17: every closeModal issues one GET /users for pagination.current_page
\* with the current search text and one GET /admin/stats, and clears the
\* selected user, the action message and the ban and group buffers, whatever
\* was done in the modal and whatever is still in flight.
C17_CloseRefetchesAndClears ==
    [][ Called("closeModal") =>
          /\ net' = (net (+) One1(UsersReq(dash.pagination.current_page,
                                           dash.searchQuery)))
                    (+) One1(StatsReq)
          /\ dash'.selectedUser = Null
          /\ dash'.adminActionMessage = Null
          /\ dash'.banReason = ""
          /\ dash'.bannedUntil = ""
          /\ dash'.newGroup = "" ]_vars

C17_Witness ==
    /\ ret.op = "closeModal"
    /\ InNet("POST /admin/users/{id}/ban") # {}
    /\ BagIn(UsersReq(2, "bo"), net)
    /\ BagIn(StatsReq, net)
    /\ dash.pagination.current_page = 2
    /\ dash.searchQuery = "bo"
    /\ dash.selectedUser = Null
    /\ dash.adminActionLoading

-----------------------------------------------------------------------------
(* The modal as a state machine *)

\* C18: the modal goes closed -> open(info) -> {moderation, permissions} ->
\* closed: opening a user enters the info tab with a null action message;
\* closing from any tab leaves the modal closed with the tab reset to info;
\* the modal opens and closes on no other step; the moderation tab is entered
\* only in the open modal while canBan holds and the permissions tab only
\* while canChangeGroup holds; no action's success or failure closes the
\* modal or changes the tab.
C18_ModalStateMachine ==
    [][ /\ ret'.op = "handleViewUserDetails" =>
              /\ dash'.modalOpen
              /\ dash'.modalActiveTab = "info"
              /\ dash'.adminActionMessage = Null
        /\ ret'.op = "closeModal" =>
              /\ dash.modalOpen
              /\ ~dash'.modalOpen
              /\ dash'.modalActiveTab = "info"
        /\ dash'.modalOpen # dash.modalOpen =>
              ret'.op \in {"handleViewUserDetails", "closeModal"}
        /\ (dash'.modalActiveTab = "moderation"
              /\ dash.modalActiveTab # "moderation") =>
              dash.modalOpen /\ canBan(user)
        /\ (dash'.modalActiveTab = "permissions"
              /\ dash.modalActiveTab # "permissions") =>
              dash.modalOpen /\ canChangeGroup(user)
        /\ ~dash'.modalOpen => dash'.modalActiveTab = "info"
        /\ ret'.outcome \in {"fulfilled", "rejected"} =>
              /\ dash'.modalOpen = dash.modalOpen
              /\ dash'.modalActiveTab = dash.modalActiveTab ]_vars

C18_Witness ==
    /\ ret.op = "handleUpdateGroup"
    /\ ret.outcome = "fulfilled"
    /\ dash.modalOpen
    /\ dash.modalActiveTab = "permissions"
    /\ dash.selectedUser # Null
    /\ dash.selectedUser.group = ret.arg.data.group

-----------------------------------------------------------------------------
(* The dashboard and the session store *)

\* C19: no operation of the dashboard (list and stats fetch, ban, unban,
\* group change, e-mail send, modal open and close) writes the session
\* store's identity, token or derived flags, also when the user acted on is
\* the logged-in user.
C19_DashboardLeavesStore ==
    [][ ret'.op \in {"fetchUsers", "fetchStats", "handleSearchSubmit",
                     "handlePageChange", "handleViewUserDetails", "closeModal",
                     "handleBanUser", "handleUnbanUser", "handleUpdateGroup",
                     "handleEmailSend"}
        => UNCHANGED <<user, token, isLoading, isVerifying,
                       showVerificationPopup, showBanPopup>> ]_vars

C19_Witness ==
    /\ ret.op = "handleBanUser"
    /\ ret.outcome = "fulfilled"
    /\ user # Null
    /\ ret.arg.username = user.name
    /\ dash.selectedUser # Null
    /\ dash.selectedUser.username = user.name
    /\ dash.selectedUser.banned_until = LOCAL_0
    /\ user.banned_until = NULL
    /\ ~showBanPopup

-----------------------------------------------------------------------------
(* The gates of the dashboard *)

\* the rank the gates see: none for no identity or a label outside the order
RankOf(u) == IF u = Null THEN 0 ELSE Tier(u.group)

\* C20: panel access holds iff the identity's rank is at least Junior
\* Support, full info iff at least Support, ban and unban iff at least
\* Senior Support, group change and bulk e-mail iff at least Admin; so
\* canChangeGroup => canBan => canSeeFullInfo => canAccessPanel, and with no
\* identity every gate is false.
C20_GateTiers ==
    /\ canAccessPanel(user) <=> RankOf(user) >= Tier("Junior Support")
    /\ canSeeFullInfo(user) <=> RankOf(user) >= Tier("Support")
    /\ canBan(user) <=> RankOf(user) >= Tier("Senior Support")
    /\ canChangeGroup(user) <=> RankOf(user) >= Tier("Admin")
    /\ canSendEmail(user) <=> RankOf(user) >= Tier("Admin")
    /\ canChangeGroup(user) => canBan(user)
    /\ canBan(user) => canSeeFullInfo(user)
    /\ canSeeFullInfo(user) => canAccessPanel(user)
    /\ user = Null =>
          ~(\/ canAccessPanel(user) \/ canSeeFullInfo(user) \/ canBan(user)
            \/ canChangeGroup(user) \/ canSendEmail(user))

C20_Witness ==
    /\ Returned("hasPrivilege")
    /\ ret.arg = Many(<<"Admin", "Owner", "Senior Support">>)
    /\ user # Null
    /\ user.group = "Senior Support"
    /\ ret.val
    /\ canBan(user)
    /\ ~canChangeGroup(user)

-----------------------------------------------------------------------------
(* Registration *)

-----------------------------------------------------------------------------
(* Late responses of the store *)

\* the state LateLoginSpec starts in
LoggedOutDuringLogin ==
    /\ ret.op = "logout"
    /\ user = Null
    /\ token = NoToken
    /\ isLoading
    /\ ~isVerifying
    /\ ~showVerificationPopup
    /\ ~showBanPopup
    /\ loginReqs = 1
    /\ registerReqs = 0
    /\ now = 0

\* C23: when logout is called while a POST /login is in flight and the
\* request then succeeds, the response's token is persisted and its identity
\* is held, although no login was started after the logout.
C23_LateLoginAccepted ==
    [][ Did("login", "fulfilled") =>
          /\ token' = ret'.arg.access_token
          /\ token' \in Tokens
          /\ user' = ret'.arg.user
          /\ user' # Null ]_vars

C23_Witness ==
    /\ ret.op = "login"
    /\ ret.outcome = "fulfilled"
    /\ loginReqs = 0
    /\ token = "tokB"
    /\ user # Null
    /\ user.name = "Bob"

\* C27: once restoration has completed (isVerifying false) and no login
\* response is pending, a token is persisted exactly when an identity is
\* held, whatever the interleaving of login, register, logout and updateUser.
C27_TokenAndIdentityInStep ==
    (~isVerifying /\ loginReqs = 0) => (token # NoToken <=> user # Null)

C27_Witness ==
    /\ ret.op = "updateUser"
    /\ ~isVerifying
    /\ loginReqs = 0
    /\ registerReqs > 0
    /\ token # NoToken
    /\ user # Null

-----------------------------------------------------------------------------
(* Late responses of the dashboard *)

\* C26: a moderation success is applied only to the record of the user the
\* request was issued for: when the modal was closed and reopened on another
\* user while the request was in flight, the late success leaves that user's
\* record (banned_until, ban_reason, group) as it was and shows no message.
C26_PatchOnlyIssuedUser ==
    [][ \A op \in ModerationOps :
          (/\ Did(op, "fulfilled")
           /\ dash.selectedUser # Null
           /\ dash.selectedUser.id # ret'.arg.id)
          => /\ dash'.selectedUser = dash.selectedUser
             /\ dash'.adminActionMessage = dash.adminActionMessage ]_vars

\* C30: listLoading is true in every state with at least one GET /users in
\* flight and false in every state with none, overlapping fetches included.
C30_ListLoadingTracksFetches ==
    panel = "mounted" => (dash.listLoading <=> InNet("GET /users") # {})

-----------------------------------------------------------------------------
(* Moderation actions in flight *)

ModerationKinds ==
    {"POST /admin/users/{id}/ban", "POST /admin/users/{id}/unban",
     "PUT /admin/users/{id}/group"}

\* the number of moderation requests in flight
ModerationInFlight ==
    BagCardinality([r \in {q \in BagToSet(net) : q.kind \in ModerationKinds}
                       |-> net[r]])

\* the permissions form holds a group the update button accepts
GroupChangeReady ==
    /\ PermissionsShown
    /\ dash.newGroup # dash.selectedUser.group
    /\ dash.newGroup # ""

\* C25 as stated: a group change can be triggered through the page's controls
\* while a ban request is in flight, nothing guarding it: with a ban in
\* flight and the permissions form ready, the update button is enabled.
C25_ActionsRaceUnguarded ==
    (InNet("POST /admin/users/{id}/ban") # {} /\ GroupChangeReady)
        => ~dash.adminActionLoading

\* C25, amended: through the page's controls at most one moderation request
\* is in flight at a time, and adminActionLoading, which disables the ban,
\* unban and update buttons, is true while it is.
C25_OneActionInFlight ==
    /\ ModerationInFlight <= 1
    /\ ModerationInFlight = 1 => dash.adminActionLoading

C25_Witness ==
    /\ InNet("POST /admin/users/{id}/ban") # {}
    /\ GroupChangeReady
    /\ \E req \in InNet("POST /admin/users/{id}/ban") :
          req.id = dash.selectedUser.id

\* the selected record after the success branch of request req
SuccessPatch(r, req) == IF r = Null THEN Null ELSE Patched(r, req)

\* C24: from the moment a ban, unban or group-change request is issued until
\* it settles, adminActionLoading is true, the action message is null and the
\* selected record is not patched (it changes only by closing or opening the
\* modal); the step that settles it runs exactly one branch, success (success
\* message, record patched) or error (error message, record kept), and sets
\* adminActionLoading false; adminActionLoading always becomes false again.
C24_ActionSettles ==
    /\ [](ModerationInFlight > 0 =>
             dash.adminActionLoading /\ dash.adminActionMessage = Null)
    /\ [][ /\ (ModerationInFlight > 0 /\ ModerationInFlight' > 0) =>
                 \/ dash'.selectedUser = dash.selectedUser
                 \/ Called("closeModal")
                 \/ Called("handleViewUserDetails")
           /\ \A op \in ModerationOps :
                 /\ Did(op, "fulfilled") =>
                       /\ dash'.adminActionMessage # Null
                       /\ dash'.adminActionMessage.type = "success"
                       /\ dash'.selectedUser =
                              SuccessPatch(dash.selectedUser, ret'.arg)
                       /\ ~dash'.adminActionLoading
                 /\ Did(op, "rejected") =>
                       /\ dash'.adminActionMessage # Null
                       /\ dash'.adminActionMessage.type = "error"
                       /\ dash'.selectedUser = dash.selectedUser
                       /\ ~dash'.adminActionLoading ]_vars
    /\ (dash.adminActionLoading ~> ~dash.adminActionLoading)

C24_Witness ==
    /\ ret.op = "handleUnbanUser"
    /\ ret.outcome = "fulfilled"
    /\ ModerationInFlight = 0
    /\ ~dash.adminActionLoading
    /\ dash.adminActionMessage # Null
    /\ dash.adminActionMessage.type = "success"
    /\ dash.selectedUser # Null
    /\ dash.selectedUser.banned_until = NULL

-----------------------------------------------------------------------------
(* The user list *)

\* C29: a page change keeps the filter of the displayed list: the request
\* handlePageChange(p) issues is for page p of the search text whose result
\* is displayed, also when the search field was edited and not submitted.
C29_PageChangeKeepsFilter ==
    [][ (Called("handlePageChange") /\ ret'.outcome = "pending") =>
          \E q \in SearchQueries :
              /\ Matching(q) = dash.users
              /\ net' = net (+) One1(UsersReq(ret'.arg.page, q)) ]_vars

\* the page right after closeModal issued a second GET /users, the first one
\* still in flight: the states StaleListSpec starts in
TwoFetchesInFlight ==
    /\ ret.op = "closeModal"
    /\ user.group = "Admin"
    /\ dash \in StaleListStates
    /\ net = Sent(<<EarlierReq(dash), LatestReq(dash), StatsReq>>)

\* C22: a GET /users response is applied whenever it arrives: the user list
\* and the pagination become those of the response that settles, also when
\* it answers the earlier of two requests in flight and settles last; the
\* displayed list is then the one of the last response to settle.
C22_LastSettledWins ==
    [][ Did("fetchUsers", "fulfilled") =>
          /\ dash'.users = Served(ret'.arg).data
          /\ dash'.pagination = Served(ret'.arg).meta ]_vars

C22_Witness ==
    /\ ret.op = "fetchUsers"
    /\ ret.outcome = "fulfilled"
    /\ ret.arg.search = ""
    /\ InNet("GET /users") = {}
    /\ dash.listError = NULL
    /\ dash.searchQuery = "bo"
    /\ dash.users = Matching("")
    /\ dash.users # Served(LatestReq(dash)).data
    /\ dash.pagination # Served(LatestReq(dash)).meta

-----------------------------------------------------------------------------
(* Requests and gates *)

\* the step sends a request of this kind
NewlySent(kind) ==
    \E r \in BagToSet(net') :
        /\ r.kind = kind
        /\ CopiesIn(r, net') > CopiesIn(r, net)

\* C28: every request is issued with its gate open for the identity the
\* session holds at that moment: GET /users and GET /admin/stats under
\* canAccessPanel, ban and unban under canBan, group changes under
\* canChangeGroup, send-email under canSendEmail, also after the identity's
\* group changed or the session was logged out with the page open.
C28_RequestsBehindGates ==
    [][ /\ (NewlySent("GET /users") \/ NewlySent("GET /admin/stats"))
            => canAccessPanel(user')
        /\ (\/ NewlySent("POST /admin/users/{id}/ban")
            \/ NewlySent("POST /admin/users/{id}/unban")) => canBan(user')
        /\ NewlySent("PUT /admin/users/{id}/group") => canChangeGroup(user')
        /\ NewlySent("POST /admin/send-email") => canSendEmail(user') ]_vars

\* a ban issued by an identity that wrote an e-mail subject as Admin and was
\* moved to Senior Support with the page open
C28_Witness ==
    /\ ret.op = "handleBanUser"
    /\ ret.outcome = "pending"
    /\ user # Null
    /\ user.group = "Senior Support"
    /\ mail.emailSubject = "Hi"
    /\ InNet("POST /admin/users/{id}/ban") # {}

====
